---- MODULE Spec2Model ----
(***************************************************************************)
(* A model of dialog_table (libdialog/dialog/dialog_table.h): the append   *)
(* pipeline, the read/visibility path and the index / filter / trigger     *)
(* management interface, run by concurrent threads.  Every access to a     *)
(* shared structure is one step.  The collaborators the table calls        *)
(* (monolog, read_tail, schema/column, filter, metadata writer) are        *)
(* modelled by the operators of the "collaborators" section.               *)
(***************************************************************************)
EXTENDS Integers, Sequences, FiniteSets, TLC

(* ------------------------------ bounds --------------------------------- *)
\* Calls per appender thread, management calls and reads in each workload.
AppendsPerThread == 2
IngestAppends == 1
IngestCalls == 2
ReadAppends == 1
MaxReads == 2
IndexAppends == 2
IndexCalls == 3
MixedAppends == 2
MixedCalls == 1
MixedReads == 1
FilterAppends == 2
FilterCalls == 3

\* The client threads.
Appenders == {1, 2}
Managers == {1, 2}

(* ------------------------------ inputs --------------------------------- *)
\* Record payloads handed to append: byte 1 is column A, byte 2 column B,
\* byte 3 column C; the second payload carries one trailing byte.
Payloads == { <<1, 1, 1>>, <<2, 1, 1, 1>> }
FieldNames == { "a", "B", "C", "X" }
BucketSizes == { 1 }
Expressions == { "A > 1", "A >" }
ReadLens == { 1, 3 }

\* Workloads: the appender threads that run, appends per thread, management
\* calls, reads, and the field names and expressions the management calls use.
Ingest   == [writers |-> Appenders, nap |-> IngestAppends, nmg |-> IngestCalls,
             nrd |-> 0, names |-> {"a"}, exprs |-> {"A > 1"}]
Stress   == [writers |-> Appenders, nap |-> AppendsPerThread, nmg |-> 0,
             nrd |-> 0, names |-> {}, exprs |-> {}]
Reading  == [writers |-> Appenders, nap |-> ReadAppends, nmg |-> 0,
             nrd |-> MaxReads, names |-> {}, exprs |-> {}]
Indexing == [writers |-> {1}, nap |-> IndexAppends, nmg |-> IndexCalls,
             nrd |-> 0, names |-> {"a", "C", "X"}, exprs |-> {}]
Mixed    == [writers |-> {1}, nap |-> MixedAppends, nmg |-> MixedCalls,
             nrd |-> MixedReads, names |-> FieldNames, exprs |-> Expressions]
Filtering == [writers |-> {1}, nap |-> FilterAppends, nmg |-> FilterCalls,
              nrd |-> 0, names |-> {}, exprs |-> Expressions]
Workloads == {Ingest, Stress, Reading, Indexing, Mixed, Filtering}

(* ---------------------------- collaborators ---------------------------- *)
\* schema_t: the ordered, typed column list and its name map.
Schema ==
  << [name |-> "A", type |-> "D_CHAR", off |-> 0, size |-> 1],
     [name |-> "B", type |-> "D_BOOL", off |-> 1, size |-> 1],
     [name |-> "C", type |-> "D_NONE", off |-> 2, size |-> 1] >>

Cols == DOMAIN Schema

\* string_utils::to_upper
ToUpper(s) == IF s = "a" THEN "A" ELSE IF s = "b" THEN "B" ELSE IF s = "c" THEN "C" ELSE s

\* schema_.name_map.at(name): the column's position, 0 when at() throws.
NameMapAt(name) ==
  IF \E c \in Cols : Schema[c].name = name
    THEN CHOOSE c \in Cols : Schema[c].name = name
    ELSE 0

Unindexed == [state |-> "UNINDEXED", id |-> 0, bucket |-> 0]

\* column_t::set_indexing: compare-and-swap UNINDEXED -> INDEXING.
SetIndexingOk(col) == col.state = "UNINDEXED"
SetIndexing(col) == IF col.state = "UNINDEXED" THEN [col EXCEPT !.state = "INDEXING"] ELSE col

\* column_t::set_indexed(id, bucket_size)
SetIndexed(col, id, b) == [state |-> "INDEXED", id |-> id, bucket |-> b]

\* column_t::set_unindexed
SetUnindexed(col) == [col EXCEPT !.state = "UNINDEXED"]

\* column_t::disable_indexing: INDEXED / INDEXING -> UNINDEXED.
DisableIndexingOk(col) == col.state \in {"INDEXED", "INDEXING"}
DisableIndexing(col) == IF DisableIndexingOk(col) THEN [col EXCEPT !.state = "UNINDEXED"] ELSE col

Zeros(n) == [i \in 1..n |-> 0]

\* monolog_linear::append, first half: the length counter is advanced
\* atomically and the caller owns [old length, old length + n).
DataLogReserve(log, n) == log \o Zeros(n)

\* monolog_linear::append, second half: the bytes are copied into the range.
DataLogWrite(log, off, bytes) ==
  [p \in DOMAIN log |->
     IF p > off /\ p <= off + Len(bytes) THEN bytes[p - off] ELSE log[p]]

\* monolog_linear::read(offset, buf, len): positions past the end read as 0.
DataLogRead(log, off, n) ==
  [i \in 1..n |-> IF off + i \in DOMAIN log THEN log[off + i] ELSE 0]

\* read_tail::advance(offset, length): waits until the tail equals offset,
\* then moves it to offset + length.
ReadTailCanAdvance(tail, off) == tail = off
ReadTailAdvance(tail, off, n) == off + n

\* schema_t::apply: one field per column, carrying the column's indexing
\* state as it is when the record is materialised.
SchemaApply(columns, bytes) ==
  [c \in Cols |->
     [indexed |-> columns[c].state = "INDEXED",
      id      |-> columns[c].id,
      key     |-> bytes[Schema[c].off + 1]]]

\* expression_compiler::compile: fails on a malformed expression.
Compiles(e) == e = "A > 1"

\* filter::update(record): the filter observes the record.
FilterUpdate(f, off) == [f EXCEPT !.seen = Append(@, off)]

\* radix_tree::insert(key, offset)
IndexInsert(ix, key, off) == [ix EXCEPT !.refs = @ \cup {<<key, off>>}]

(* ------------------------------- state --------------------------------- *)
VARIABLES
  data_log,   \* data_log_: the bytes, 0 where reserved and not yet written
  durable,    \* byte positions flushed by data_log_.flush
  rt,         \* rt_: the read tail
  cols,       \* schema_: each column's indexing state
  idx,        \* idx_: the index registry
  filters,    \* filters_
  triggers,   \* triggers_
  metadata,   \* metadata_: what was written to the catalog
  ap,         \* each appender's position and locals
  mg,         \* each manager's position and locals
  rd,         \* the reader's position and locals
  ncalls,     \* management calls made so far
  hist,       \* one entry per append call: what it has done so far
  calls,      \* one entry per add_index / remove_index call on a column
  wl          \* the workload: how many calls of each kind the clients make

vars == <<data_log, durable, rt, cols, idx, filters, triggers, metadata,
          ap, mg, rd, ncalls, hist, calls, wl>>

shared == <<data_log, durable, rt, cols, idx, filters, triggers, metadata>>

ApIdle == [k |-> 0, sub |-> 0, off |-> 0, data |-> <<>>, rec |-> <<>>,
           nf |-> 0, i |-> 0, n |-> 0, aid |-> 0]

MgIdle == [pc |-> "idle", op |-> "none", col |-> 0, name |-> "", id |-> 0,
           bucket |-> 0, res |-> "none", cid |-> 0]

RdIdle == [pc |-> "idle", op |-> "none", o |-> 0, len |-> 0, tail |-> 0,
           cap |-> 0, res |-> "none", buf |-> <<>>, n |-> 0]

\* The table as its constructor leaves it (lines 48-61), and the clients'
\* workload.
InitWith(w) ==
  /\ wl = w
  /\ data_log = <<>>
  /\ durable = {}
  /\ rt = 0
  /\ cols = [c \in Cols |-> Unindexed]
  /\ idx = <<>>
  /\ filters = <<>>
  /\ triggers = <<>>
  /\ metadata = <<>>
  /\ ap = [t \in Appenders |-> ApIdle]
  /\ mg = [t \in Managers |-> MgIdle]
  /\ rd = RdIdle
  /\ ncalls = 0
  /\ hist = <<>>
  /\ calls = <<>>

(* ------------------------------- append -------------------------------- *)
\* Variants of append with one statement moved: the tail advanced before the
\* filters and indexes are updated, and the flush issued after the advance.
AppendOrderAdvanceEarly == << "data", "apply", "advance", "filters", "index", "flush" >>
AppendOrderFlushLate == << "data", "apply", "filters", "index", "advance", "flush" >>

\* The order of append's statements (lines 137-149).
AppendOrder == << "data", "apply", "filters", "index", "flush", "advance" >>

\* Variants of append's arguments and result: one byte too few reserved, one
\* byte too many advanced, the end of the record returned.
ReserveLenShort(a) == Len(a.data) - 1
AdvanceLenLong(a) == Len(a.data) + 1
AdvanceLenShort(a) == Len(a.data) - 1
AppendResultEnd(a) == a.off + Len(a.data)

\* The length append hands to data_log_.append (line 137).
ReserveLen(a) == Len(a.data)

\* The length append hands to rt_.advance (line 149).
AdvanceLen(a) == Len(a.data)

\* What append returns (line 150).
AppendResult(a) == a.off

Stage(t) == IF ap[t].k \in DOMAIN AppendOrder THEN AppendOrder[ap[t].k] ELSE "none"

IsLast(a) == a.k = Len(AppendOrder)

\* The appender after the statement it is at: the next statement, or the
\* return to the caller.
NextAp(a) ==
  IF IsLast(a) THEN [ApIdle EXCEPT !.n = a.n + 1]
               ELSE [a EXCEPT !.k = @ + 1, !.sub = 0, !.i = 0]

NextHist(h, a) ==
  [h EXCEPT ![a.aid].done = @ \cup {AppendOrder[a.k]}
                              \cup (IF IsLast(a) THEN {"returned"} ELSE {}),
            ![a.aid].ret = IF IsLast(a) THEN AppendResult(a) ELSE @]

\* The index ids whose add_index has returned with no remove_index on the
\* column since that add_index was called.
SettledIndexes == { calls[j].id : j \in { j \in DOMAIN calls :
                       calls[j].status = "ok" /\ ~calls[j].removed } }

\* The filter ids whose add_filter has returned.
SettledFilters ==
  { metadata[i].id : i \in { i \in DOMAIN metadata : metadata[i].kind = "filter" } }

Append_call(t, data) ==
  /\ t \in wl.writers
  /\ ap[t].k = 0
  /\ ap[t].n < wl.nap
  /\ ap' = [ap EXCEPT ![t] = [@ EXCEPT !.k = 1, !.data = data,
                                        !.aid = Len(hist) + 1]]
  /\ hist' = Append(hist, [t |-> t, data |-> data, off |-> -1, prior |-> -1,
                           done |-> {}, ret |-> -1, expect |-> SettledIndexes,
                           fexpect |-> SettledFilters])
  /\ UNCHANGED <<wl, shared, mg, rd, ncalls, calls>>

\* data_log_.append: the range is reserved ...
Append_data_reserve(t) ==
  LET a == ap[t] IN
  /\ Stage(t) = "data" /\ a.sub = 0
  /\ data_log' = DataLogReserve(data_log, ReserveLen(a))
  /\ ap' = [ap EXCEPT ![t] = [@ EXCEPT !.off = Len(data_log), !.sub = 1]]
  /\ hist' = [hist EXCEPT ![a.aid].off = Len(data_log),
                          ![a.aid].prior = Len(data_log)]
  /\ UNCHANGED <<wl, durable, rt, cols, idx, filters, triggers, metadata,
                 mg, rd, ncalls, calls>>

\* ... and the bytes are copied into it.
Append_data_write(t) ==
  LET a == ap[t] IN
  /\ Stage(t) = "data" /\ a.sub = 1
  /\ data_log' = DataLogWrite(data_log, a.off, a.data)
  /\ ap' = [ap EXCEPT ![t] = NextAp(a)]
  /\ hist' = NextHist(hist, a)
  /\ UNCHANGED <<wl, durable, rt, cols, idx, filters, triggers, metadata,
                 mg, rd, ncalls, calls>>

\* record_t r = schema_.apply(offset, data, offset + length, ts)
Append_apply(t) ==
  LET a == ap[t] IN
  /\ Stage(t) = "apply"
  /\ ap' = [ap EXCEPT ![t] = NextAp([a EXCEPT !.rec = SchemaApply(cols, a.data)])]
  /\ hist' = NextHist(hist, a)
  /\ UNCHANGED <<wl, shared, mg, rd, ncalls, calls>>

\* size_t nfilters = filters_.size()
Append_filters_size(t) ==
  LET a == ap[t] IN
  /\ Stage(t) = "filters" /\ a.sub = 0
  /\ IF Len(filters) = 0
       THEN /\ ap' = [ap EXCEPT ![t] = NextAp(a)]
            /\ hist' = NextHist(hist, a)
       ELSE /\ ap' = [ap EXCEPT ![t] = [@ EXCEPT !.nf = Len(filters),
                                                 !.i = 0, !.sub = 1]]
            /\ hist' = hist
  /\ UNCHANGED <<wl, shared, mg, rd, ncalls, calls>>

\* filters_.at(i)->update(r)
Append_filters_update(t) ==
  LET a == ap[t] IN
  /\ Stage(t) = "filters" /\ a.sub = 1
  /\ filters' = [filters EXCEPT ![a.i + 1] = FilterUpdate(@, a.off)]
  /\ IF a.i + 1 = a.nf
       THEN /\ ap' = [ap EXCEPT ![t] = NextAp(a)]
            /\ hist' = NextHist(hist, a)
       ELSE /\ ap' = [ap EXCEPT ![t] = [@ EXCEPT !.i = @ + 1]]
            /\ hist' = hist
  /\ UNCHANGED <<wl, data_log, durable, rt, cols, idx, triggers, metadata,
                 mg, rd, ncalls, calls>>

\* for (f : r) if (f.is_indexed()) idx_.at(f.index_id())->insert(key, offset):
\* one step per indexed field.
Append_index(t) ==
  LET a == ap[t]
      rest == { c \in Cols : c > a.i /\ a.rec[c].indexed }
  IN
  /\ Stage(t) = "index"
  /\ IF rest = {}
       THEN /\ idx' = idx
            /\ ap' = [ap EXCEPT ![t] = NextAp(a)]
            /\ hist' = NextHist(hist, a)
       ELSE LET c == CHOOSE c \in rest : \A d \in rest : c <= d
                f == a.rec[c]
            IN /\ idx' = IF f.id + 1 \in DOMAIN idx
                            THEN [idx EXCEPT ![f.id + 1] = IndexInsert(@, f.key, a.off)]
                            ELSE idx
               /\ IF rest = {c}
                    THEN /\ ap' = [ap EXCEPT ![t] = NextAp(a)]
                         /\ hist' = NextHist(hist, a)
                    ELSE /\ ap' = [ap EXCEPT ![t] = [@ EXCEPT !.i = c]]
                         /\ hist' = hist
  /\ UNCHANGED <<wl, data_log, durable, rt, cols, filters, triggers, metadata,
                 mg, rd, ncalls, calls>>

\* data_log_.flush(offset, length)
Append_flush(t) ==
  LET a == ap[t] IN
  /\ Stage(t) = "flush"
  /\ durable' = durable \cup { a.off + j : j \in 0..(Len(a.data) - 1) }
  /\ ap' = [ap EXCEPT ![t] = NextAp(a)]
  /\ hist' = NextHist(hist, a)
  /\ UNCHANGED <<wl, data_log, rt, cols, idx, filters, triggers, metadata,
                 mg, rd, ncalls, calls>>

\* rt_.advance(offset, length)
Append_advance(t) ==
  LET a == ap[t] IN
  /\ Stage(t) = "advance"
  /\ ReadTailCanAdvance(rt, a.off)
  /\ rt' = ReadTailAdvance(rt, a.off, AdvanceLen(a))
  /\ ap' = [ap EXCEPT ![t] = NextAp(a)]
  /\ hist' = NextHist(hist, a)
  /\ UNCHANGED <<wl, data_log, durable, cols, idx, filters, triggers, metadata,
                 mg, rd, ncalls, calls>>

append(t) ==
  \/ \E data \in Payloads : Append_call(t, data)
  \/ Append_data_reserve(t)
  \/ Append_data_write(t)
  \/ Append_apply(t)
  \/ Append_filters_size(t)
  \/ Append_filters_update(t)
  \/ Append_index(t)
  \/ Append_flush(t)
  \/ Append_advance(t)

(* ----------------------------- management ------------------------------ *)
\* aux_log_t::push_back: the entry is added and its position returned.
AuxPushBack(log, e) == log \o <<e>>

\* The switch over col.type().id (lines 77-94): the radix tree to build,
\* fanout 0 for the default branch.
IndexFor(type, size) ==
  IF type = "D_BOOL" THEN [width |-> 1, fanout |-> 2, refs |-> {}]
  ELSE IF type \in {"D_CHAR", "D_SHORT", "D_INT", "D_LONG", "D_FLOAT",
                    "D_DOUBLE", "D_STRING"}
       THEN [width |-> size, fanout |-> 256, refs |-> {}]
  ELSE [width |-> 0, fanout |-> 0, refs |-> {}]

\* An index id one past the entry that was pushed.
NewIndexIdPast(reg) == Len(reg) + 1

\* The index id add_index stores in the column (line 95).
NewIndexId(reg) == Len(reg)

Returned == { j \in DOMAIN hist : "returned" \in hist[j].done }

MgDone(m, res) == [MgIdle EXCEPT !.op = m.op, !.col = m.col, !.res = res]

\* A failure that is not raised: the call returns normally.
ThrowNothing(m) == MgDone(m, "ok")

\* THROW(management_exception, ...), lines 69, 93, 98, 108, 113.
Throw(m) == MgDone(m, "management_exception")

\* A variant of the test of set_indexing's result that always goes on.
AddIndexProceedsAlways(success) == TRUE

\* A variant that never goes on.
AddIndexProceedsNever(success) == FALSE

\* if (success), line 75.
AddIndexProceeds(success) == success

\* add_index, lines 64-74: resolve the field, then col.set_indexing().
AddIndex_begin(t, name, b) ==
  LET c == NameMapAt(ToUpper(name))
      m == [MgIdle EXCEPT !.op = "add_index", !.name = name, !.col = c,
                          !.bucket = b, !.cid = Len(calls) + 1]
      call == [op |-> "add_index", col |-> c, id |-> -1, status |-> "running",
               removed |-> FALSE, pre |-> Returned,
               at |-> IF c = 0 THEN "" ELSE cols[c].state]
  IN
  /\ mg[t].pc = "idle"
  /\ ncalls < wl.nmg
  /\ ncalls' = ncalls + 1
  /\ IF c = 0
       THEN /\ mg' = [mg EXCEPT ![t] = Throw([m EXCEPT !.cid = 0])]
            /\ UNCHANGED <<wl, cols, calls>>
       ELSE IF AddIndexProceeds(SetIndexingOk(cols[c]))
         THEN /\ cols' = [cols EXCEPT ![c] = SetIndexing(@)]
              /\ mg' = [mg EXCEPT ![t] = [m EXCEPT !.pc = "ai_alloc"]]
              /\ calls' = Append(calls, call)
         ELSE /\ mg' = [mg EXCEPT ![t] = Throw(m)]
              /\ calls' = Append(calls, [call EXCEPT !.status = "already", !.pre = {}])
              /\ UNCHANGED cols
  /\ UNCHANGED <<wl, data_log, durable, rt, idx, filters, triggers, metadata,
                 ap, rd, hist>>

\* A default branch that throws without rolling the column back.
RollBackNone(col) == col

\* The default branch's col.set_unindexed() (line 92).
RollBack(col) == SetUnindexed(col)

\* add_index, lines 76-94: build the index for the column's type and push
\* it to idx_, or roll the column back and throw.
AddIndex_alloc(t) ==
  LET m == mg[t]
      e == IndexFor(Schema[m.col].type, Schema[m.col].size)
  IN
  /\ m.pc = "ai_alloc"
  /\ IF e.fanout > 0
       THEN /\ idx' = AuxPushBack(idx, e)
            /\ mg' = [mg EXCEPT ![t] = [m EXCEPT !.pc = "ai_set", !.id = NewIndexId(idx)]]
            /\ calls' = [calls EXCEPT ![m.cid].id = NewIndexId(idx)]
            /\ UNCHANGED cols
       ELSE /\ cols' = [cols EXCEPT ![m.col] = RollBack(@)]
            /\ mg' = [mg EXCEPT ![t] = Throw(m)]
            /\ calls' = [calls EXCEPT ![m.cid].status = "unsupported"]
            /\ UNCHANGED idx
  /\ UNCHANGED <<wl, data_log, durable, rt, filters, triggers, metadata,
                 ap, rd, ncalls, hist>>

\* add_index, line 95: col.set_indexed(index_id, bucket_size)
AddIndex_set_indexed(t) ==
  LET m == mg[t] IN
  /\ m.pc = "ai_set"
  /\ cols' = [cols EXCEPT ![m.col] = SetIndexed(@, m.id, m.bucket)]
  /\ mg' = [mg EXCEPT ![t] = [m EXCEPT !.pc = "ai_meta"]]
  /\ UNCHANGED <<wl, data_log, durable, rt, idx, filters, triggers, metadata,
                 ap, rd, ncalls, hist, calls>>

\* add_index, line 96: metadata_.write_index_info, then the return.
AddIndex_write_info(t) ==
  LET m == mg[t] IN
  /\ m.pc = "ai_meta"
  /\ metadata' = Append(metadata, [kind |-> "index", id |-> m.id,
                                   name |-> m.name, arg |-> m.bucket])
  /\ mg' = [mg EXCEPT ![t] = MgDone(m, "ok")]
  /\ calls' = [calls EXCEPT ![m.cid].status = "ok"]
  /\ UNCHANGED <<wl, data_log, durable, rt, cols, idx, filters, triggers,
                 ap, rd, ncalls, hist>>

add_index(t) ==
  \/ \E name \in wl.names, b \in BucketSizes : AddIndex_begin(t, name, b)
  \/ AddIndex_alloc(t)
  \/ AddIndex_set_indexed(t)
  \/ AddIndex_write_info(t)

\* remove_index, lines 103-116.
remove_index(t, name) ==
  LET c == NameMapAt(ToUpper(name))
      m == [MgIdle EXCEPT !.op = "remove_index", !.name = name, !.col = c]
  IN
  /\ mg[t].pc = "idle"
  /\ ncalls < wl.nmg
  /\ ncalls' = ncalls + 1
  /\ IF c # 0 /\ DisableIndexingOk(cols[c])
       THEN /\ cols' = [cols EXCEPT ![c] = DisableIndexing(@)]
            /\ mg' = [mg EXCEPT ![t] = MgDone(m, "ok")]
            /\ calls' = [j \in DOMAIN calls |->
                           IF calls[j].col = c
                             THEN [calls[j] EXCEPT !.removed = TRUE]
                             ELSE calls[j]]
                        \o << [op |-> "remove_index", col |-> c,
                               id |-> IF cols[c].state = "INDEXED"
                                        THEN cols[c].id ELSE -1,
                               status |-> "ok", removed |-> TRUE, pre |-> {},
                               at |-> cols[c].state] >>
       ELSE /\ mg' = [mg EXCEPT ![t] = Throw(m)]
            /\ UNCHANGED <<wl, cols, calls>>
  /\ UNCHANGED <<wl, data_log, durable, rt, idx, filters, triggers, metadata,
                 ap, rd, hist>>

\* A variant that registers the filter whether or not the expression
\* compiled.
AddFilterRegistersAlways(compiled) == TRUE

\* Line 120 is reached only when compile (line 119) did not throw.
AddFilterRegisters(compiled) == compiled

\* add_filter, lines 119-120: compile the expression, push the filter.
AddFilter_begin(t, expr) ==
  LET m == [MgIdle EXCEPT !.op = "add_filter", !.name = expr] IN
  /\ mg[t].pc = "idle"
  /\ ncalls < wl.nmg
  /\ ncalls' = ncalls + 1
  /\ IF AddFilterRegisters(Compiles(expr))
       THEN /\ filters' = AuxPushBack(filters, [expr |-> expr, seen |-> <<>>,
                                                   pre |-> Returned])
            /\ mg' = [mg EXCEPT ![t] = [m EXCEPT !.pc = "af_meta", !.id = Len(filters)]]
       ELSE /\ mg' = [mg EXCEPT ![t] = MgDone(m, "compile_exception")]
            /\ UNCHANGED filters
  /\ UNCHANGED <<wl, data_log, durable, rt, cols, idx, triggers, metadata,
                 ap, rd, hist, calls>>

\* add_filter, lines 121-122.
AddFilter_write_info(t) ==
  LET m == mg[t] IN
  /\ m.pc = "af_meta"
  /\ metadata' = Append(metadata, [kind |-> "filter", id |-> m.id,
                                   name |-> m.name, arg |-> 0])
  /\ mg' = [mg EXCEPT ![t] = MgDone(m, "ok")]
  /\ UNCHANGED <<wl, data_log, durable, rt, cols, idx, filters, triggers,
                 ap, rd, ncalls, hist, calls>>

add_filter(t) ==
  \/ \E expr \in wl.exprs : AddFilter_begin(t, expr)
  \/ AddFilter_write_info(t)

\* add_trigger, lines 128-129.
AddTrigger_begin(t, fid) ==
  LET m == [MgIdle EXCEPT !.op = "add_trigger", !.name = "A", !.col = fid] IN
  /\ mg[t].pc = "idle"
  /\ ncalls < wl.nmg
  /\ ncalls' = ncalls + 1
  /\ triggers' = AuxPushBack(triggers, [filter_id |-> fid])
  /\ mg' = [mg EXCEPT ![t] = [m EXCEPT !.pc = "at_meta", !.id = Len(triggers)]]
  /\ UNCHANGED <<wl, data_log, durable, rt, cols, idx, filters, metadata,
                 ap, rd, hist, calls>>

\* add_trigger, lines 130-132.
AddTrigger_write_info(t) ==
  LET m == mg[t] IN
  /\ m.pc = "at_meta"
  /\ metadata' = Append(metadata, [kind |-> "trigger", id |-> m.id,
                                   name |-> m.name, arg |-> m.col])
  /\ mg' = [mg EXCEPT ![t] = MgDone(m, "ok")]
  /\ UNCHANGED <<wl, data_log, durable, rt, cols, idx, filters, triggers,
                 ap, rd, ncalls, hist, calls>>

add_trigger(t) ==
  \/ \E fid \in {0} : AddTrigger_begin(t, fid)
  \/ AddTrigger_write_info(t)

(* -------------------------------- reads -------------------------------- *)
\* A variant of the visibility test that admits the tail itself.
VisibleInclusive(offset, tail) == offset <= tail

\* The visibility test of ptr and read (lines 154, 164).
Visible(offset, tail) == offset < tail

RdCall(op, o, len, tail) ==
  [RdIdle EXCEPT !.op = op, !.o = o, !.len = len, !.tail = tail,
                 !.cap = rd.cap, !.n = rd.n + 1]

\* A read that reports success without copying from the log.
ReadIntoNoCopy(r) ==
  IF Visible(r.o, r.tail)
    THEN [r EXCEPT !.res = "true", !.buf = Zeros(r.len)]
    ELSE [r EXCEPT !.res = "false"]

\* read(offset, data, length, tail), lines 163-169.
ReadInto(r) ==
  IF Visible(r.o, r.tail)
    THEN [r EXCEPT !.res = "true", !.buf = DataLogRead(data_log, r.o, r.len)]
    ELSE [r EXCEPT !.res = "false"]

\* ptr(offset, tail), lines 153-157.
PtrOf(r) ==
  IF Visible(r.o, r.tail) THEN [r EXCEPT !.res = "ptr"] ELSE [r EXCEPT !.res = "null"]

\* The offsets a reader asks for: the first record, and the offsets around
\* the tail it compares with.
ReadOffsets(tail) == { o \in {0, tail - 1, tail, tail + 1} : o >= 0 }

\* num_records(), lines 175-177; the reader keeps the value as its snapshot.
num_records ==
  /\ rd.pc = "idle" /\ rd.n < wl.nrd
  /\ rd' = [RdCall("num_records", 0, 0, rt) EXCEPT !.cap = rt, !.res = "done"]
  /\ UNCHANGED <<wl, shared, ap, mg, ncalls, hist, calls>>

\* read with the tail the reader captured earlier.
read(o, len) ==
  /\ rd.pc = "idle" /\ rd.n < wl.nrd
  /\ rd' = ReadInto(RdCall("read", o, len, rd.cap))
  /\ UNCHANGED <<wl, shared, ap, mg, ncalls, hist, calls>>

\* get, lines 171-173: rt_.get() ...
Get_tail(o, len) ==
  /\ rd.pc = "idle" /\ rd.n < wl.nrd
  /\ rd' = [RdCall("get", o, len, rt) EXCEPT !.pc = "get_read"]
  /\ UNCHANGED <<wl, shared, ap, mg, ncalls, hist, calls>>

\* ... then read(offset, data, length, tail).
Get_read ==
  /\ rd.pc = "get_read"
  /\ rd' = ReadInto([rd EXCEPT !.pc = "idle"])
  /\ UNCHANGED <<wl, shared, ap, mg, ncalls, hist, calls>>

get ==
  \/ \E o \in ReadOffsets(rt), len \in ReadLens : Get_tail(o, len)
  \/ Get_read

\* ptr(offset, tail) with the captured tail, and ptr(offset), lines 153-161.
ptr ==
  /\ rd.pc = "idle" /\ rd.n < wl.nrd
  /\ \/ \E o \in ReadOffsets(rd.cap) : rd' = PtrOf(RdCall("ptr", o, 0, rd.cap))
     \/ \E o \in ReadOffsets(rt) : rd' = PtrOf(RdCall("ptr1", o, 0, rt))
  /\ UNCHANGED <<wl, shared, ap, mg, ncalls, hist, calls>>

(* --------------------------- specification ----------------------------- *)
Next ==
  \/ \E t \in Appenders : append(t)
  \/ \E t \in Managers : add_index(t)
  \/ \E t \in Managers, name \in wl.names : remove_index(t, name)
  \/ \E t \in Managers : add_filter(t)
  \/ \E t \in Managers : add_trigger(t)
  \/ num_records
  \/ \E o \in ReadOffsets(rd.cap), len \in ReadLens : read(o, len)
  \/ get
  \/ ptr

\* Every operation, under every workload.
Init == \E w \in Workloads : InitWith(w)
Spec == Init /\ [][Next]_vars

\* Concurrent appends while a filter and an index are being registered.
NextIngest ==
  \/ \E t \in Appenders : append(t)
  \/ \E t \in Managers : add_index(t)
  \/ \E t \in Managers : add_filter(t)

InitIngest == InitWith(Ingest) \/ InitWith(Stress)
SpecIngest == InitIngest /\ [][NextIngest]_vars

\* A reader beside concurrent appends, and beside appends to a table with
\* filters.
NextRead ==
  \/ \E t \in Appenders : append(t)
  \/ \E t \in Managers : add_filter(t)
  \/ num_records
  \/ \E o \in ReadOffsets(rd.cap), len \in ReadLens : read(o, len)
  \/ get
  \/ ptr

InitRead == InitWith(Reading) \/ InitWith(Mixed)
SpecRead == InitRead /\ [][NextRead]_vars

\* add_index and remove_index racing each other and appends, also on a
\* table with filters.
NextIndex ==
  \/ \E t \in Appenders : append(t)
  \/ \E t \in Managers : add_index(t)
  \/ \E t \in Managers, name \in wl.names : remove_index(t, name)
  \/ \E t \in Managers : add_filter(t)

InitIndex == InitWith(Indexing) \/ InitWith(Mixed)
SpecIndex == InitIndex /\ [][NextIndex]_vars

\* add_filter calls racing each other and appends, with expressions that
\* compile and that do not.
NextFilter ==
  \/ \E t \in Appenders : append(t)
  \/ \E t \in Managers : add_filter(t)

InitFilter == InitWith(Filtering)
SpecFilter == InitFilter /\ [][NextFilter]_vars

\* The statements of an append in progress, and of a get in progress: the
\* steps a thread takes on its own once its call has started.
AppendStep(t) ==
  \/ Append_data_reserve(t)
  \/ Append_data_write(t)
  \/ Append_apply(t)
  \/ Append_filters_size(t)
  \/ Append_filters_update(t)
  \/ Append_index(t)
  \/ Append_flush(t)
  \/ Append_advance(t)

ReadStep == Get_read

\* Every thread that is inside a call keeps being scheduled.
Fairness ==
  /\ \A t \in Appenders : WF_vars(AppendStep(t))
  /\ WF_vars(ReadStep)

\* Appenders and a reader under fair scheduling.
InitLive == InitWith(Reading) \/ InitWith(Stress) \/ InitWith(Mixed)
SpecLive == InitLive /\ [][NextRead]_vars /\ Fairness

(* ------------------------------- claims -------------------------------- *)
Reserved == { j \in DOMAIN hist : hist[j].off >= 0 }
RecLen(j) == Len(hist[j].data)
FilterSaw(off) == \E f \in DOMAIN filters : \E i \in DOMAIN filters[f].seen : filters[f].seen[i] = off
IndexHas(off) == \E x \in DOMAIN idx : \E r \in idx[x].refs : r[2] = off

\* C1: every record whose offset is below the read tail has finished all of
\* its filter updates and all of its index inserts; the tail never passes
\* the bytes of an append that has not finished them, also when appends
\* finish out of offset order.
C1_VisibleIsIndexedAndFiltered ==
  \A j \in Reserved :
    hist[j].off < rt => {"filters", "index"} \subseteq hist[j].done

\* An append at a higher offset has updated a filter and an index and
\* flushed, and waits behind a lower append that has not finished indexing.
C1_Witness ==
  \E j, k \in Reserved :
    /\ hist[j].off < hist[k].off
    /\ "index" \notin hist[j].done
    /\ {"filters", "index", "flush"} \subseteq hist[k].done
    /\ FilterSaw(hist[k].off) /\ IndexHas(hist[k].off)
    /\ rt <= hist[j].off

\* C2: every byte position below the read tail belongs to a record whose
\* data_log_.flush has finished.
C2_VisibleIsFlushed ==
  \A p \in 0..(rt - 1) :
    /\ p \in durable
    /\ \E j \in Reserved : /\ hist[j].off <= p /\ p < hist[j].off + RecLen(j)
                           /\ "flush" \in hist[j].done

\* A record is visible while a later one is flushed and not yet visible.
C2_Witness ==
  /\ rt > 0
  /\ \E j \in Reserved : hist[j].off >= rt /\ "flush" \in hist[j].done

\* C3: 0 <= tail <= data log length in every state, and no step of any
\* operation decreases the tail.
C3_TailBoundedAndMonotonic ==
  /\ [](0 <= rt /\ rt <= Len(data_log))
  /\ [][rt' >= rt]_vars

\* The tail has moved and lies strictly inside the log, after a management
\* call and a read.
C3_Witness ==
  /\ 0 < rt /\ rt < Len(data_log)
  /\ ncalls > 0 /\ rd.n > 0

\* The byte range of append call j: from the offset it returned (the offset
\* it reserved while it is in flight) over its length.
RangeStart(j) == IF "returned" \in hist[j].done THEN hist[j].ret ELSE hist[j].off
Covering(p) == { j \in Reserved : RangeStart(j) <= p /\ p < RangeStart(j) + RecLen(j) }

\* C4: the offsets appends return are pairwise distinct, each is the data
\* log's length just before the append's bytes were added, and the byte
\* ranges of all appends tile [0, log length) without overlap or gap.
C4_OffsetsTileTheLog ==
  /\ \A j, k \in Returned : j # k => hist[j].ret # hist[k].ret
  /\ \A j \in Returned : hist[j].ret = hist[j].prior
  /\ \A p \in 0..(Len(data_log) - 1) : Cardinality(Covering(p)) = 1
  /\ \A j \in Reserved : RangeStart(j) + RecLen(j) <= Len(data_log)

\* Four appends of both lengths have returned.
C4_Witness ==
  /\ Cardinality(Returned) = 4
  /\ \E j, k \in Returned : RecLen(j) # RecLen(k) /\ hist[j].ret > hist[k].ret

AllAppendsReturned ==
  \A t \in wl.writers : ap[t].k = 0 /\ ap[t].n = wl.nap

\* C5: once T threads have each returned from R appends, the returned
\* offsets are T*R distinct values and num_records() is the largest of them
\* plus that record's length, which is the data log's length.
C5_AllReturned ==
  AllAppendsReturned =>
    LET offs == { hist[j].ret : j \in Returned } IN
    /\ Cardinality(offs) = Cardinality(wl.writers) * wl.nap
    /\ \E j \in Returned :
         /\ \A k \in Returned : hist[k].ret <= hist[j].ret
         /\ rt = hist[j].ret + RecLen(j)
    /\ rt = Len(data_log)

\* Two threads have each returned from two appends.
C5_Witness ==
  /\ AllAppendsReturned
  /\ wl.nap = 2 /\ Cardinality(wl.writers) = 2
  /\ Cardinality({ hist[j].ret : j \in Returned }) = 4

ReadReturned == rd.pc = "idle" /\ rd.op \in {"get", "read"}
PtrReturned == rd.pc = "idle" /\ rd.op \in {"ptr", "ptr1"}

\* C6: get returns true iff the offset is below the tail get read, read
\* returns true iff the offset is below the tail it was given, ptr returns a
\* pointer iff the offset is below its tail; otherwise they return false or
\* null, an ordinary result.
C6_VisibilityGate ==
  /\ ReadReturned =>
       /\ rd.res \in {"true", "false"}
       /\ rd.res = "true" <=> rd.o < rd.tail
  /\ PtrReturned =>
       /\ rd.res \in {"ptr", "null"}
       /\ rd.res = "ptr" <=> rd.o < rd.tail

\* get returned false for the offset that was the tail when get read it, and
\* the tail has passed that offset since.
C6_Witness ==
  /\ rd.pc = "idle" /\ rd.op = "get" /\ rd.res = "false"
  /\ rd.o = rd.tail /\ rd.o < rt

\* C7: every byte position a successful get or read copies, each position
\* of [o, o + len), is below the tail the offset was checked against.
C7_CopiesOnlyBelowTail ==
  (ReadReturned /\ rd.res = "true") =>
    \A p \in rd.o..(rd.o + rd.len - 1) : p < rd.tail

AddCalls == { c \in DOMAIN calls : calls[c].op = "add_index" }
IndexOf(c) == idx[calls[c].id + 1]
KeyOf(j, col) == hist[j].data[Schema[col].off + 1]

\* No record whose append had returned when add_index was called is in the
\* index that add_index allocated.
C9_NoEarlierRecord ==
  \A c \in AddCalls :
    calls[c].id >= 0 =>
      \A j \in calls[c].pre : \A r \in IndexOf(c).refs : r[2] # hist[j].ret

\* Every visible record whose append started after add_index had returned,
\* with no remove_index on the column since that add_index was called, is
\* in the index that add_index allocated, under its key.
C9_EveryLaterRecord ==
  \A c \in AddCalls :
    (calls[c].status = "ok" /\ ~calls[c].removed) =>
      \A j \in Reserved :
        (calls[c].id \in hist[j].expect /\ hist[j].off < rt) =>
          <<KeyOf(j, calls[c].col), hist[j].off>> \in IndexOf(c).refs

\* C9: after a successful add_index on a column, the index it allocated
\* holds no record whose append returned before the call, and holds every
\* visible record whose append started after the call returned with no
\* remove_index in between.
C9_IndexProspective == C9_NoEarlierRecord /\ C9_EveryLaterRecord

AddCallsOn(col) == { c \in AddCalls : calls[c].col = col }
OkOn(col) == { c \in AddCallsOn(col) : calls[c].status = "ok" }
RunningOn(col) == { c \in AddCallsOn(col) : calls[c].status = "running" }
NoRemoveOn(col) ==
  \A c \in DOMAIN calls : ~(calls[c].op = "remove_index" /\ calls[c].col = col)
Supported(col) == IndexFor(Schema[col].type, Schema[col].size).fanout > 0
\* Some add_index call on the column arrived while another was in flight.
Raced(col) == \E c \in AddCallsOn(col) : calls[c].at = "INDEXING"
LastCall == calls'[Len(calls')]

\* An add_index that finds its column INDEXING or INDEXED fails with a
\* management error, pushes no index and leaves every column as it was.
C10_RejectedWhenIndexed ==
  [][ ( /\ Len(calls') = Len(calls) + 1
        /\ LastCall.op = "add_index"
        /\ cols[LastCall.col].state \in {"INDEXING", "INDEXED"} )
      => ( /\ LastCall.status = "already"
           /\ idx' = idx /\ cols' = cols /\ metadata' = metadata
           /\ \E t \in Managers :
                /\ mg[t].pc = "idle" /\ mg'[t].pc = "idle"
                /\ mg'[t].op = "add_index"
                /\ mg'[t].res = "management_exception"
                /\ \A u \in Managers \ {t} : mg'[u] = mg[u] ) ]_vars

\* Once add_index calls that raced on a column no remove_index has touched
\* have all finished, exactly one of them has succeeded.
C10_ExactlyOneWinner ==
  \A col \in Cols :
    (NoRemoveOn(col) /\ RunningOn(col) = {} /\ Raced(col)) =>
      /\ Cardinality(OkOn(col)) = 1
      /\ \A c \in AddCallsOn(col) \ OkOn(col) :
           calls[c].status \in {"already", "unsupported"}

\* The same for a column whose type add_index supports; never more than one
\* winner; no winner on a column of another type.
C10_OneWinnerIfSupported ==
  \A col \in Cols :
    NoRemoveOn(col) =>
      /\ Cardinality(OkOn(col)) <= 1
      /\ (RunningOn(col) = {} /\ Raced(col)) =>
           /\ Cardinality(OkOn(col)) = (IF Supported(col) THEN 1 ELSE 0)
           /\ \A c \in AddCallsOn(col) \ OkOn(col) :
                calls[c].status \in {"already", "unsupported"}

\* C10 as stated: an add_index on an INDEXING or INDEXED column fails, pushes
\* no index and leaves the column unchanged; when several add_index calls
\* race on an UNINDEXED column with no remove_index, exactly one succeeds and
\* the others fail with a management error.
C10_AsStated == C10_RejectedWhenIndexed /\ []C10_ExactlyOneWinner

\* C10 amended: as stated, for a column of a type add_index supports; on a
\* column of any other type every racing call fails.
C10_OneWinner == C10_RejectedWhenIndexed /\ []C10_OneWinnerIfSupported

\* Three add_index calls on one column with no remove_index: one succeeded,
\* one was rejected while the winner was INDEXING, one once it was INDEXED.
C10_Witness ==
  \E col \in Cols :
    /\ NoRemoveOn(col) /\ RunningOn(col) = {}
    /\ \E c1, c2, c3 \in AddCallsOn(col) :
         /\ calls[c1].status = "ok"
         /\ calls[c2].status = "already" /\ calls[c2].at = "INDEXING"
         /\ calls[c3].status = "already" /\ calls[c3].at = "INDEXED"

\* The add_index and remove_index calls made on a column, in call order.
CallSeqOn(col) == SelectSeq(calls, LAMBDA c : c.col = col)

\* add_index, remove_index, add_index were made one after the other on the
\* column, each finding the column as the one before left it, and no other
\* call was made on it.
ReAdded(col) ==
  LET s == CallSeqOn(col) IN
  /\ Len(s) = 3
  /\ s[1].op = "add_index" /\ s[1].at = "UNINDEXED" /\ s[1].status = "ok"
  /\ s[2].op = "remove_index" /\ s[2].at = "INDEXED"
  /\ s[3].op = "add_index" /\ s[3].at = "UNINDEXED" /\ s[3].status = "ok"

\* The appends that started when the index was settled and have passed
\* their index inserts.
InsertedSince(id) ==
  { j \in DOMAIN hist : id \in hist[j].expect /\ "index" \in hist[j].done }

\* No step of the sequence fails: add_index on an UNINDEXED column goes on
\* to build its index, builds it when the column's type has a rule, and
\* returns normally; remove_index on an INDEXED column succeeds.
C11_StepsSucceed ==
  [][\A t \in Managers :
       /\ (mg[t].pc = "idle" /\ mg'[t] # mg[t] /\ mg'[t].col # 0) =>
            /\ (mg'[t].op = "remove_index" /\ cols[mg'[t].col].state = "INDEXED") =>
                 (mg'[t].res = "ok" /\ cols'[mg'[t].col].state = "UNINDEXED")
            /\ (mg'[t].op = "add_index" /\ cols[mg'[t].col].state = "UNINDEXED") =>
                 (mg'[t].pc = "ai_alloc" /\ cols'[mg'[t].col].state = "INDEXING")
       /\ (mg[t].pc = "ai_alloc" /\ mg'[t] # mg[t] /\ Supported(mg[t].col)) =>
            mg'[t].pc = "ai_set"
       /\ (mg[t].pc = "ai_meta" /\ mg'[t] # mg[t]) => mg'[t].res = "ok"]_vars

\* After the sequence the column is INDEXED with the second add_index's
\* index id, the id names an entry of the registry, and every append that
\* started since has inserted the column's key and its offset there.
C11_ReAddedIndexUsable ==
  \A col \in Cols :
    ReAdded(col) =>
      LET id == CallSeqOn(col)[3].id IN
      /\ cols[col].state = "INDEXED" /\ cols[col].id = id
      /\ id + 1 \in DOMAIN idx
      /\ \A j \in InsertedSince(id) :
           <<KeyOf(j, col), hist[j].off>> \in idx[id + 1].refs

\* C11: add_index(f), remove_index(f), add_index(f) made in sequence on one
\* field succeed at every step; afterwards the column is INDEXED with an
\* index id naming a registry entry into which every append started later
\* inserts the field's key and offset.
C11_ReAdd == C11_StepsSucceed /\ []C11_ReAddedIndexUsable

\* The sequence was made and an append started after it has inserted into
\* the new index and become visible.
C11_Witness ==
  \E col \in Cols :
    /\ ReAdded(col)
    /\ \E j \in InsertedSince(CallSeqOn(col)[3].id) : hist[j].off < rt /\ hist[j].off >= 0

\* The columns whose type is none of the cases of add_index's switch.
NoRule(col) ==
  Schema[col].type \notin {"D_BOOL", "D_CHAR", "D_SHORT", "D_INT", "D_LONG",
                           "D_FLOAT", "D_DOUBLE", "D_STRING"}

IndexInfoFor(col) ==
  { i \in DOMAIN metadata :
      metadata[i].kind = "index" /\ ToUpper(metadata[i].name) = Schema[col].name }

\* The step at which add_index finds no rule for the column's type throws a
\* management error, sets the column UNINDEXED and touches neither the
\* registry nor the catalog; an add_index that finds such a column
\* UNINDEXED is not turned away as already indexed.
C12_UnsupportedStep ==
  [][\A t \in Managers :
       /\ (mg[t].pc = "ai_alloc" /\ mg'[t] # mg[t] /\ NoRule(mg[t].col)) =>
            /\ mg'[t].pc = "idle" /\ mg'[t].res = "management_exception"
            /\ cols'[mg[t].col].state = "UNINDEXED"
            /\ idx' = idx /\ metadata' = metadata
       /\ (mg[t].pc = "idle" /\ mg'[t] # mg[t] /\ mg'[t].op = "add_index"
             /\ mg'[t].col # 0 /\ NoRule(mg'[t].col)
             /\ cols[mg'[t].col].state = "UNINDEXED") =>
            (mg'[t].pc = "ai_alloc" /\ cols'[mg'[t].col].state = "INDEXING")]_vars

\* A column without a rule is never INDEXED, no add_index on it succeeds or
\* gets an index id, the catalog holds no index info for it, every registry
\* entry belongs to a call on another column, and once no add_index is
\* running on it the column is as the constructor left it.
C12_UnsupportedState ==
  \A col \in Cols :
    NoRule(col) =>
      /\ cols[col].state # "INDEXED"
      /\ \A c \in AddCallsOn(col) :
           calls[c].id = -1 /\ calls[c].status \in {"running", "already", "unsupported"}
      /\ IndexInfoFor(col) = {}
      /\ Len(idx) = Cardinality({ c \in AddCalls : calls[c].id >= 0 })
      /\ RunningOn(col) = {} => cols[col] = Unindexed

\* C12: add_index on a column whose type has no index-construction rule
\* fails with a management error, leaves the column UNINDEXED, allocates no
\* index entry and writes no index info, so a later add_index on the column
\* starts from UNINDEXED again.
C12_UnsupportedRejected == C12_UnsupportedStep /\ []C12_UnsupportedState

\* Two add_index calls on a column without a rule have failed one after the
\* other, the second having found the column UNINDEXED again.
C12_Witness ==
  \E col \in Cols :
    /\ NoRule(col) /\ RunningOn(col) = {}
    /\ \E c1, c2 \in AddCallsOn(col) :
         /\ c1 < c2
         /\ calls[c1].status = "unsupported" /\ calls[c2].status = "unsupported"
         /\ \A c \in AddCallsOn(col) : c1 < c /\ c < c2 => calls[c].status # "running"

\* C13: add_index and remove_index with a field name that is not in the
\* schema, and remove_index on a column that has no index, raise a
\* management error; and a management call that raises one on the spot
\* changes no column's indexing state, no registry entry, no catalog record,
\* and neither the data log nor the tail.
C13_FailedCallsChangeNothing ==
  [][\A t \in Managers :
       (mg[t].pc = "idle" /\ mg'[t] # mg[t]
          /\ mg'[t].op \in {"add_index", "remove_index"}) =>
         /\ (\/ mg'[t].col = 0
             \/ (mg'[t].op = "remove_index" /\ cols[mg'[t].col].state = "UNINDEXED")) =>
              (mg'[t].pc = "idle" /\ mg'[t].res = "management_exception")
         /\ (mg'[t].pc = "idle" /\ mg'[t].res = "management_exception") =>
              (shared' = shared /\ ap' = ap /\ rd' = rd)]_vars

\* While an append is between reserving its range and advancing the tail,
\* one manager's call with an unknown field name has failed and the other
\* manager's remove_index on a column without an index has failed.
C13_Witness ==
  /\ Len(data_log) > rt
  /\ \E t, u \in Managers :
       /\ t # u
       /\ mg[t].pc = "idle" /\ mg[t].op \in {"add_index", "remove_index"}
       /\ mg[t].col = 0 /\ mg[t].res = "management_exception"
       /\ mg[u].pc = "idle" /\ mg[u].op = "remove_index"
       /\ mg[u].col # 0 /\ mg[u].res = "management_exception"

\* The index ids that a successful remove_index found in an INDEXED column.
RemovedIds ==
  { calls[r].id : r \in { r \in DOMAIN calls :
                            calls[r].op = "remove_index" /\ calls[r].at = "INDEXED" } }

\* A successful remove_index changes its column's indexing state and
\* nothing else of the table: not the registry, not any index's contents,
\* not another column.
C14_RemoveFrame ==
  [][ (Len(calls') = Len(calls) + 1 /\ LastCall.op = "remove_index") =>
        /\ idx' = idx /\ metadata' = metadata /\ filters' = filters
        /\ data_log' = data_log /\ rt' = rt
        /\ cols'[LastCall.col].state = "UNINDEXED"
        /\ cols'[LastCall.col].id = cols[LastCall.col].id
        /\ \A c \in Cols \ {LastCall.col} : cols'[c] = cols[c] ]_vars

\* Once remove_index has returned, no step inserts into the index it
\* removed.
C14_NoInsertAfterRemove ==
  [][\A i \in RemovedIds : idx'[i + 1] = idx[i + 1]]_vars

\* C14: a successful remove_index changes only the column's indexing state,
\* leaving the registry and the removed index's contents as they are, and
\* from its return on no (key, offset) pair is inserted into that index,
\* also not by appends that were in flight when it ran.
C14_RemoveStopsInsertion == C14_RemoveFrame /\ C14_NoInsertAfterRemove

Seen(f) == filters[f].seen

\* The appends that were called after the filter's add_filter had returned
\* and have run their filter loop.
FilteredSince(f) ==
  { j \in DOMAIN hist : (f - 1) \in hist[j].fexpect /\ "filters" \in hist[j].done }

\* Each record of an append called after add_filter returned is handed to
\* the filter's update exactly once.
C15_OncePerRecord ==
  \A f \in DOMAIN filters :
    /\ \A j \in FilteredSince(f) :
         Cardinality({ i \in DOMAIN Seen(f) : Seen(f)[i] = hist[j].off }) = 1
    /\ \A i, k \in DOMAIN Seen(f) : i # k => Seen(f)[i] # Seen(f)[k]

\* The filter's update is never invoked for a record whose append had
\* returned when the filter was registered.
C15_NoEarlierRecord ==
  \A f \in DOMAIN filters :
    \A i \in DOMAIN Seen(f) : \A j \in filters[f].pre : hist[j].ret # Seen(f)[i]

\* The offsets of the appends called after the filter's add_filter returned.
OffsetsSince(f) ==
  { hist[j].off : j \in { j \in DOMAIN hist : (f - 1) \in hist[j].fexpect } }

\* The invocations of update for those appends come in ascending offset
\* order.
C15_Ascending ==
  \A f \in DOMAIN filters :
    \A i, k \in DOMAIN Seen(f) :
      (i < k /\ Seen(f)[i] \in OffsetsSince(f) /\ Seen(f)[k] \in OffsetsSince(f)) =>
        Seen(f)[i] < Seen(f)[k]

\* C15: for a filter registered by add_filter and the appends called after
\* add_filter returned, concurrent or not, update is invoked once per
\* record, in ascending offset order of the records, and never for a record
\* appended before the filter was registered.
C15_FilterOrdering == C15_OncePerRecord /\ C15_Ascending /\ C15_NoEarlierRecord

FilterInfo == { i \in DOMAIN metadata : metadata[i].kind = "filter" }
AddingFilter == { t \in Managers : mg[t].pc = "af_meta" }

\* An add_filter whose expression compiles gets the registry's size as its
\* id and grows the registry by one; one whose expression does not compile
\* raises the compilation error and leaves the table as it was.
C16_AddFilterStep ==
  [][\A t \in Managers :
       (mg[t].pc = "idle" /\ mg'[t] # mg[t] /\ mg'[t].op = "add_filter") =>
         IF mg'[t].pc = "af_meta"
           THEN /\ mg'[t].id = Len(filters)
                /\ Len(filters') = Len(filters) + 1
                /\ \A f \in DOMAIN filters : filters'[f] = filters[f]
           ELSE /\ mg'[t].res = "compile_exception"
                /\ shared' = shared]_vars

\* The ids handed out so far, returned or about to be, are 0, 1, ... up to
\* the registry's size, each once; every filter in the registry compiles.
C16_IdsDense ==
  /\ { metadata[i].id : i \in FilterInfo } \cup { mg[t].id : t \in AddingFilter }
       = 0..(Len(filters) - 1)
  /\ Cardinality(FilterInfo) + Cardinality(AddingFilter) = Len(filters)
  /\ \A f \in DOMAIN filters : Compiles(filters[f].expr)
  /\ \A i \in FilterInfo : Compiles(metadata[i].name)

\* C16: add_filter returns ids that increase strictly in registration order
\* from 0 and are never reused, also when calls run concurrently; a call
\* whose expression does not compile raises the compilation error and
\* leaves the registry's size and the catalog unchanged.
C16_FilterIds == C16_AddFilterStep /\ []C16_IdsDense

\* Two add_filter calls overlapped and the one registered second returned
\* first, a third call failed to compile, and an append has since updated
\* both filters.
C16_Witness ==
  /\ Len(filters) = 2 /\ Len(metadata) = 2
  /\ metadata[1].id = 1 /\ metadata[2].id = 0
  /\ \E t \in Managers : mg[t].pc = "idle" /\ mg[t].res = "compile_exception"
  /\ \A f \in DOMAIN filters : Len(Seen(f)) > 0

LegalTransitions ==
  { <<"UNINDEXED", "INDEXING">>, <<"INDEXING", "INDEXED">>,
    <<"INDEXING", "UNINDEXED">>, <<"INDEXED", "UNINDEXED">> }

\* A column's indexing state changes by the four transitions only, and an
\* INDEXED column keeps its index id while it stays INDEXED.
C17_OnlyLegalTransitions ==
  [][\A col \in Cols :
       /\ cols'[col].state # cols[col].state =>
            <<cols[col].state, cols'[col].state>> \in LegalTransitions
       /\ (cols[col].state = "INDEXED" /\ cols'[col].state = "INDEXED") =>
            cols'[col] = cols[col]]_vars

\* A column becomes INDEXED only through an add_index call on which no
\* remove_index has succeeded since the call started.
C17_NoRevival ==
  [][\A col \in Cols :
       (cols[col].state # "INDEXED" /\ cols'[col].state = "INDEXED") =>
         \E t \in Managers :
           /\ mg[t].pc = "ai_set" /\ mg'[t].pc = "ai_meta" /\ mg[t].col = col
           /\ ~calls[mg[t].cid].removed]_vars

\* After a successful add_index with no remove_index on the column since
\* the call started, the column is INDEXED with the id that call allocated.
C17_WinnerOwnsColumn ==
  \A c \in AddCalls :
    (calls[c].status = "ok" /\ ~calls[c].removed) =>
      (cols[calls[c].col].state = "INDEXED" /\ cols[calls[c].col].id = calls[c].id)

\* C17: under every interleaving of add_index and remove_index on a column
\* its state changes only UNINDEXED->INDEXING, INDEXING->INDEXED,
\* INDEXING->UNINDEXED and INDEXED->UNINDEXED; a column a remove_index has
\* set UNINDEXED becomes INDEXED again only through an add_index that
\* started after the removal; a successful add_index leaves the column
\* INDEXED with the id it allocated itself.
C17_StateMachine ==
  C17_OnlyLegalTransitions /\ C17_NoRevival /\ []C17_WinnerOwnsColumn

\* The append calls a workload can make.
HistIds == 1..(Cardinality(Appenders) * AppendsPerThread)

\* C18: under fair scheduling every append call that has started returns
\* and its offset becomes visible, whatever the other appenders do; a get
\* that has read the tail can always take its next step and returns; read,
\* ptr and num_records are a single step of their own.
C18_Progress ==
  /\ \A j \in HistIds :
       (j \in DOMAIN hist) ~>
         (j \in DOMAIN hist /\ j \in Returned /\ hist[j].ret >= 0 /\ hist[j].ret < rt)
  /\ [](rd.pc # "idle" => (rd.pc = "get_read" /\ ENABLED ReadStep))
  /\ (rd.pc # "idle") ~> (rd.pc = "idle")

\* An append that reached rt_.advance is waiting for an append with a lower
\* offset, while a get is between reading the tail and reading the log.
C18_Witness ==
  /\ \E t \in Appenders : Stage(t) = "advance" /\ ap[t].off > rt
  /\ rd.pc = "get_read"

\* The appenders that hold a materialised record and have not finished
\* their index inserts.
Inserting == { t \in Appenders : Stage(t) \in {"filters", "index"} }

\* The index id was allocated by an add_index call on this column.
AllocatedFor(id, col) == \E c \in AddCallsOn(col) : calls[c].id = id

\* Every field an append sees as indexed carries an id below the registry's
\* size that an add_index on the field's own column allocated, and the
\* entry has the key width of the column's type.
C19_FieldIdsValid ==
  \A t \in Inserting : \A col \in Cols :
    ap[t].rec[col].indexed =>
      /\ ap[t].rec[col].id < Len(idx)
      /\ AllocatedFor(ap[t].rec[col].id, col)
      /\ idx[ap[t].rec[col].id + 1].width = IndexFor(Schema[col].type, Schema[col].size).width

\* Every change of an index entry is the insert of an append's key and
\* offset into the entry allocated for that field's column.
C19_InsertsHitOwnIndex ==
  [][\A i \in DOMAIN idx :
       idx'[i] # idx[i] =>
         \E t \in Appenders, col \in Cols :
           /\ Stage(t) = "index" /\ ap[t].rec[col].indexed
           /\ ap[t].rec[col].id = i - 1 /\ AllocatedFor(i - 1, col)
           /\ idx'[i].refs = idx[i].refs \cup {<<ap[t].rec[col].key, ap[t].off>>}]_vars

OffsetsIn(c) == { r[2] : r \in IndexOf(c).refs }

\* C20: for a column indexed by one successful add_index with no later
\* remove_index, the offsets in the index are upward-closed among the
\* visible records: when the record at offset o is in the index, every
\* visible record at a higher offset is in it too.
C20_IndexUpwardClosed ==
  \A c \in AddCalls :
    (calls[c].status = "ok" /\ ~calls[c].removed /\ OkOn(calls[c].col) = {c}) =>
      \A o \in OffsetsIn(c) : \A j \in Reserved :
        (hist[j].off > o /\ hist[j].off < rt) => hist[j].off \in OffsetsIn(c)

====
